---- MODULE Spec2Model ----
(***************************************************************************)
(* A model of the analytics synthesis engine of src/main.py: the monthly   *)
(* history of generate_real_analytics_data with its growth curve and its   *)
(* reconciliation, the country distributions, the daily window of          *)
(* generate_daily_analytics and classify_repository.                       *)
(*                                                                         *)
(* Arithmetic.  The source computes in IEEE binary64 and truncates with    *)
(* int().  The model computes the same quantities exactly, as quotients   *)
(* of integers, and carries a one-sided rounding mark where the binary64  *)
(* result falls below the exact value at a point of discontinuity of      *)
(* int() or of an equality test (GrowthFactor at progress 3/5).           *)
(***************************************************************************)
EXTENDS Integers, Sequences, FiniteSets, TLC

\* ------------------------------------------------------------ bounds
\* Largest stargazers_count / forks_count of a repository snapshot.
MaxStars == 10
MaxForks == 3
\* Largest number of calendar months between creation month and current month.
MaxSpan == 3
\* Year of the earliest creation timestamp.
BaseYear == 2023
\* Largest contribution count of a contributor, and the number of count patterns.
MaxContributions == 3
MaxPattern == 2
\* Largest total_months the growth curve is sampled for (progress = m / total_months).
MaxTotalMonths == 15

\* ------------------------------------------------------------ state
VARIABLES
    repo_data,          \* the repository snapshot (GitHub's repository document)
    current_date,       \* datetime.now(timezone.utc) of the call
    stargazers,         \* the star events fetched by get_stargazers_timeline
    contributors,       \* the contributor list fetched by get_contributors_data
    pc,                 \* position of the call in its function body
    current_month,      \* loop variable of the monthly loop
    cumulative_stars,
    cumulative_forks,
    monthly_history,
    adjusted,           \* which of the two reconciliation branches were taken
    countries,          \* the "countries" entry of the returned bundle
    daily_i,            \* loop variable i of generate_daily_analytics
    daily_stars,
    daily_forks,
    classification,     \* the results of the calls of classify_repository
    growth,             \* the growth factors computed for the sampled progress values
    legacy_monthly,     \* the "monthly" entry of the returned bundle
    page,               \* get_stargazers_timeline: the page to request next
    requests,           \* get_stargazers_timeline: the requests issued, with their responses
    fetched,            \* get_stargazers_timeline: its list `stargazers`, page by page
    active_connections, \* manager.active_connections
    handler,            \* the position of each client's websocket_endpoint call
    client_open,        \* whether the client's socket still takes frames
    removals,           \* how often manager.disconnect removed the client's connection
    send_failed,        \* the clients a send_text of websocket_endpoint has failed for
    broadcast           \* the position of a call of manager.broadcast

\* The variables of get_stargazers_timeline and of the push channel.
fetchVars == <<page, requests, fetched>>
channelVars == <<active_connections, handler, client_open, removals, send_failed, broadcast>>

vars == <<repo_data, current_date, stargazers, contributors, pc, current_month,
          cumulative_stars, cumulative_forks, monthly_history, adjusted, countries,
          daily_i, daily_stars, daily_forks, classification, growth, legacy_monthly,
          fetchVars, channelVars>>

\* ------------------------------------------------------------ helpers
Max(a, b) == IF a >= b THEN a ELSE b
Min(a, b) == IF a <= b THEN a ELSE b
Abs(a) == IF a >= 0 THEN a ELSE -a
Sign(a) == IF a > 0 THEN 1 ELSE IF a < 0 THEN -1 ELSE 0

\* int() of the quotient n/d (d > 0): truncation toward zero.
IntOf(n, d) == IF n >= 0 THEN n \div d ELSE -((-n) \div d)

RECURSIVE SumOver(_, _)
\* sum(item[field] for item in seq)
SumOver(seq, field) ==
    IF seq = <<>> THEN 0 ELSE seq[1][field] + SumOver(Tail(seq), field)

\* ------------------------------------------------------------ timestamps
\* An aware datetime: [year, month, day, time]; all of them are UTC.
Timestamp(y, m, d, t) == [year |-> y, month |-> m, day |-> d, time |-> t]

\* a <= b on datetimes
TsLeq(a, b) ==
    \/ a.year < b.year
    \/ a.year = b.year /\ a.month < b.month
    \/ a.year = b.year /\ a.month = b.month /\ a.day < b.day
    \/ a.year = b.year /\ a.month = b.month /\ a.day = b.day /\ a.time <= b.time

\* current_month.replace(year + 1, month = 1) / replace(month + 1)
NextMonth(ts) ==
    IF ts.month = 12
    THEN [ts EXCEPT !.year = ts.year + 1, !.month = 1]
    ELSE [ts EXCEPT !.month = ts.month + 1]

MonthAbbr == <<"Jan", "Feb", "Mar", "Apr", "May", "Jun",
               "Jul", "Aug", "Sep", "Oct", "Nov", "Dec">>

\* ------------------------------------------------------------ growth model
\* A growth factor is one of
\*    [kind |-> "rat", n, d, under]   the quotient n/d,
\*    [kind |-> "pow", n, d, under]   0.05 + pow(n/d, 1.5) * 0.35,
\* with d > 0 and n >= 0 for "pow"; under = 1 marks a binary64 result that lies
\* below this exact value by rounding (less than any positive quotient).
Rat(n, d) == [kind |-> "rat", n |-> n, d |-> d, under |-> 0]

RECURSIVE Gcd(_, _)
Gcd(a, b) == IF b = 0 THEN a ELSE Gcd(b, a % b)

\* Sign of q - (0.05 + pow(g, 1.5) * 0.35) for the quotient q and "pow" value of g:
\* with e/d = 20q - 1, the sign of (e/d)^2 - 49 g^3 when e >= 0, both sides
\* multiplied by d^2 * g.d^3 and divided by the square of c = gcd(d, g.d).
CmpRatPow(q, g) ==
    LET e == 20 * q.n - q.d
        c == Gcd(q.d, g.d)
        qd == q.d \div c
        gd == g.d \div c
    IN IF e < 0 THEN -1
       ELSE Sign(e * e * gd * gd * g.d - 49 * g.n * g.n * g.n * qd * qd)

\* Sign of a - b for the exact values of a and b.
CmpExact(a, b) ==
    IF a.kind = b.kind THEN Sign(a.n * b.d - b.n * a.d)
    ELSE IF a.kind = "rat" THEN CmpRatPow(a, b)
    ELSE -CmpRatPow(b, a)

\* a <= b on the computed (binary64) values.
GfLeq(a, b) ==
    LET c == CmpExact(a, b)
    IN c < 0 \/ (c = 0 /\ a.under >= b.under)

GfEq(a, b) == CmpExact(a, b) = 0 /\ a.under = b.under

\* The three-phase curve of lines 276-297, progress = m / T with 0 <= m <= T, T >= 1.
EarlyPhase(m, T) == Rat(m, 4 * T)
\* growth_progress = (progress - 0.2) / 0.4 = (5m - T) / 2T.  At progress = 0.6 the
\* binary64 difference 0.6 - 0.2 is 0.39999999999999997, the quotient by 0.4 is
\* 0.9999999999999999 and the factor comes out as 0.3999999999999999, below 0.4.
GrowthPhase(m, T) ==
    [kind |-> "pow", n |-> 5 * m - T, d |-> 2 * T,
     under |-> IF 5 * m = 3 * T THEN 1 ELSE 0]
\* 0.4 + ((progress - 0.6) / 0.4) * 0.6 = (4T + 3(5m - 3T)) / 10T
MaturityPhase(m, T) == Rat(4 * T + 3 * (5 * m - 3 * T), 10 * T)

GrowthFactor(m, T) ==
    IF 5 * m <= T THEN EarlyPhase(m, T)
    ELSE IF 5 * m <= 3 * T THEN GrowthPhase(m, T)
    ELSE MaturityPhase(m, T)

\* int(total * min(1.0, factor)): the largest k with k <= total * factor.
ScaleFloor(total, factor) ==
    LET f == IF GfLeq(factor, Rat(1, 1)) THEN factor ELSE Rat(1, 1)
        ks == {k \in 0..total : total = 0 \/ GfLeq(Rat(k, Max(1, total)), f)}
    IN IF ks = {} THEN 0 ELSE CHOOSE k \in ks : \A j \in ks : j <= k

\* target_cumulative of line 300, months_since_creation = m, total_months = T
TargetCumulative(total_stars, m, T) == ScaleFloor(total_stars, GrowthFactor(m, T))

\* ------------------------------------------------------------ star events
\* A star event's starred_at: absent (missing, null or empty), malformed (a string
\* datetime.fromisoformat rejects) or an ISO timestamp (at).
StarEvent(k, ts) == [kind |-> k, at |-> ts]

RECURSIVE CountInMonth(_, _)
\* lines 258-267: the events whose starred_at parses and lies in the month of `month`
CountInMonth(events, month) ==
    IF events = <<>> THEN 0
    ELSE (IF /\ events[1].kind = "iso"
             /\ events[1].at.year = month.year
             /\ events[1].at.month = month.month
          THEN 1 ELSE 0) + CountInMonth(Tail(events), month)

\* ------------------------------------------------------------ monthly history
\* (a.year - b.year) * 12 + (a.month - b.month)
MonthsBetween(a, b) == (a.year - b.year) * 12 + (a.month - b.month)

\* the months between without the floor of 1
TotalMonthsUnfloored(created_date, now) == MonthsBetween(now, created_date)

\* line 272
TotalMonths(created_date, now) == Max(1, MonthsBetween(now, created_date))

\* lines 308-309: the values int(stars_this_month * variation_percent) takes as
\* random.random() ranges over [0, 1), variation_percent over [-0.3, 0.3).
Variations(stars_this_month) ==
    (-((3 * stars_this_month) \div 10)) .. ((3 * stars_this_month - 1) \div 10)

seasonal_months == {3, 4, 9, 10, 11}

\* lines 313-316
Seasonal(stars_this_month, month_num) ==
    IF month_num \in seasonal_months
    THEN IntOf(11 * stars_this_month, 10)
    ELSE stars_this_month

\* stars_this_month with the counted events kept where there are any
StarsThisMonthKeepingCount(repo, events, month, now, cumulative, variation) ==
    LET counted == CountInMonth(events, month)
        total_months == TotalMonths(repo.created_at, now)
        target_cumulative ==
            TargetCumulative(repo.stargazers_count,
                             MonthsBetween(month, repo.created_at), total_months)
        base == Max(0, target_cumulative - cumulative)
    IN IF counted > 0 THEN counted
       ELSE IF base > 0 THEN Seasonal(Max(0, base + variation), month.month)
       ELSE base

\* lines 258-318: stars_this_month of the month current_month, for the drawn variation
StarsThisMonth(repo, events, month, now, cumulative, variation) ==
    LET created_date == repo.created_at
        counted == CountInMonth(events, month)
        months_since_creation == MonthsBetween(month, created_date)
        total_months == TotalMonths(created_date, now)
    IN IF total_months > 0 /\ months_since_creation >= 0
       THEN LET target_cumulative ==
                    TargetCumulative(repo.stargazers_count, months_since_creation,
                                     total_months)
                base == Max(0, target_cumulative - cumulative)
            IN IF base > 0
               THEN Seasonal(Max(0, base + variation), month.month)
               ELSE base
       ELSE 0

\* lines 323-324
ForksThisMonth(repo, stars_this_month) ==
    IF stars_this_month > 0
    THEN IntOf(stars_this_month * repo.forks_count, Max(1, repo.stargazers_count))
    ELSE 0

\* lines 327-337
MonthlyRecord(month, stars_this_month, forks_this_month, cum_stars, cum_forks) ==
    [month |-> <<MonthAbbr[month.month], month.year>>,
     month_key |-> <<month.year, month.month>>,
     stars_gained |-> stars_this_month,
     forks_gained |-> forks_this_month,
     total_stars_before |-> cum_stars - stars_this_month,
     total_stars_after |-> cum_stars,
     total_forks_before |-> cum_forks - forks_this_month,
     total_forks_after |-> cum_forks,
     date |-> month]

\* A division by one of `divisors` raises ZeroDivisionError when it is 0.
ZeroDivision(divisors) == 0 \in divisors

\* The call is left by an exception no handler of the function catches.
Raise ==
    /\ pc' = "raised"
    /\ UNCHANGED <<repo_data, current_date, stargazers, contributors, current_month,
                   cumulative_stars, cumulative_forks, monthly_history, adjusted,
                   countries, daily_i, daily_stars, daily_forks, classification, growth,
                   legacy_monthly, fetchVars, channelVars>>

\* The divisors of an iteration of the monthly loop: total_months (line 276) and
\* max(1, stargazers_count) (line 323).
MonthlyDivisors(repo, now) ==
    {TotalMonths(repo.created_at, now), Max(1, repo.stargazers_count)}

\* One iteration of the loop of lines 253-343.
MonthlyLoop ==
    /\ pc = "monthly_loop"
    /\ TsLeq(current_month, current_date)
    /\ IF ZeroDivision(MonthlyDivisors(repo_data, current_date))
       THEN Raise
       ELSE /\ \E variation \in
                   Variations(Max(0, TargetCumulative(repo_data.stargazers_count,
                                         MonthsBetween(current_month, repo_data.created_at),
                                         TotalMonths(repo_data.created_at, current_date))
                                     - cumulative_stars)) \cup {0} :
                  LET stars_this_month ==
                          StarsThisMonth(repo_data, stargazers, current_month, current_date,
                                         cumulative_stars, variation)
                      forks_this_month == ForksThisMonth(repo_data, stars_this_month)
                  IN /\ cumulative_stars' = cumulative_stars + stars_this_month
                     /\ cumulative_forks' = cumulative_forks + forks_this_month
                     /\ monthly_history' =
                            Append(monthly_history,
                                   MonthlyRecord(current_month, stars_this_month,
                                                 forks_this_month,
                                                 cumulative_stars + stars_this_month,
                                                 cumulative_forks + forks_this_month))
            /\ current_month' = NextMonth(current_month)
            /\ UNCHANGED <<repo_data, current_date, stargazers, contributors, pc, adjusted,
                           countries, daily_i, daily_stars, daily_forks, classification, growth>>
            /\ UNCHANGED <<legacy_monthly, fetchVars, channelVars>>

\* abs(diff) > actual * 0.05
OffByMoreThanFivePercent(diff, actual) == 20 * Abs(diff) > actual

\* the adjustment with the share computed over three months whatever the length
AdjustLastOverThree(history, field, diff) ==
    LET months_to_adjust == Min(3, Len(history))
        per_month == diff \div 3
    IN [i \in 1..Len(history) |->
           IF i > Len(history) - months_to_adjust
           THEN [history[i] EXCEPT ![field] = Max(0, history[i][field] + per_month)]
           ELSE history[i]]

\* lines 359-364 and 367-372: add per_month to `field` of the last months_to_adjust
\* records, each floored at 0
AdjustLast(history, field, diff) ==
    LET months_to_adjust == Min(3, Len(history))
        per_month == diff \div months_to_adjust
    IN [i \in 1..Len(history) |->
           IF i > Len(history) - months_to_adjust
           THEN [history[i] EXCEPT ![field] = Max(0, history[i][field] + per_month)]
           ELSE history[i]]

\* the history left as the adjustment made it
RecalculateSkipped(history) == history

\* lines 375-384
Recalculate(history) ==
    [i \in 1..Len(history) |->
        LET running_stars == SumOver(SubSeq(history, 1, i - 1), "stars_gained")
            running_forks == SumOver(SubSeq(history, 1, i - 1), "forks_gained")
        IN [history[i] EXCEPT
               !.total_stars_before = running_stars,
               !.total_stars_after = running_stars + history[i].stars_gained,
               !.total_forks_before = running_forks,
               !.total_forks_after = running_forks + history[i].forks_gained]]

\* lines 354-358 and 366
StarsOff(repo, history) ==
    OffByMoreThanFivePercent(repo.stargazers_count - SumOver(history, "stars_gained"),
                             repo.stargazers_count)
ForksOff(repo, history) ==
    OffByMoreThanFivePercent(repo.forks_count - SumOver(history, "forks_gained"),
                             repo.forks_count)

\* lines 346-384
Reconciled(repo, history) ==
    IF history = <<>> THEN history
    ELSE LET stars_diff == repo.stargazers_count - SumOver(history, "stars_gained")
             forks_diff == repo.forks_count - SumOver(history, "forks_gained")
             h1 == IF StarsOff(repo, history)
                   THEN AdjustLast(history, "stars_gained", stars_diff) ELSE history
             h2 == IF ForksOff(repo, history)
                   THEN AdjustLast(h1, "forks_gained", forks_diff) ELSE h1
         IN Recalculate(h2)

\* The loop of lines 253-343 ends and lines 345-384 reconcile the history.
Reconcile ==
    /\ pc = "monthly_loop"
    /\ ~TsLeq(current_month, current_date)
    /\ monthly_history' = Reconciled(repo_data, monthly_history)
    /\ adjusted' = [stars |-> monthly_history # <<>> /\ StarsOff(repo_data, monthly_history),
                    forks |-> monthly_history # <<>> /\ ForksOff(repo_data, monthly_history)]
    /\ pc' = "reconciled"
    /\ UNCHANGED <<repo_data, current_date, stargazers, contributors, current_month,
                   cumulative_stars, cumulative_forks, countries, daily_i, daily_stars,
                   daily_forks, classification, growth>>
    /\ UNCHANGED <<legacy_monthly, fetchVars, channelVars>>

\* ------------------------------------------------------------ inputs
\* Days of month and hours of day the timestamps are drawn from: the first of the
\* month and a later day, midnight and noon.
Days == {1, 15}
Times == {0, 12}
\* Creation months: before a run of seasonal months, inside one, and before a new year.
CreationMonths == {2, 9, 11}

\* ts moved n calendar months on, to day d and time t
MonthsOn(ts, n, d, t) ==
    LET idx == (ts.month - 1) + n
    IN Timestamp(ts.year + idx \div 12, (idx % 12) + 1, d, t)

CreatedDates == {Timestamp(BaseYear, m, d, t) : m \in CreationMonths, d \in Days, t \in Times}

\* The current timestamps not earlier than `created`, at most MaxSpan months on.
CurrentDates(created) ==
    {now \in {MonthsOn(created, n, d, t) : n \in 0..MaxSpan, d \in Days, t \in Times} :
        TsLeq(created, now)}

\* A snapshot with the counts and the creation timestamp; no language, no description.
Repo(stars, forks, created) ==
    [stargazers_count |-> stars, forks_count |-> forks, created_at |-> created,
     language |-> [present |-> TRUE, value |-> "None"],
     description |-> [none |-> TRUE, text |-> <<>>], name |-> <<"r">>, fork |-> FALSE]

\* Star-event lists of the monthly specification: none, or one event in the creation
\* month, or one with a malformed starred_at.
StarLists(created) ==
    {<<>>, <<StarEvent("iso", created)>>, <<StarEvent("malformed", created)>>}

NoCountries == [stars |-> <<>>, forks |-> <<>>, clones |-> <<>>]
NoLegacy == [stars |-> <<>>, forks |-> <<>>, clones |-> <<>>]
\* no page fetch and no push channel in this run
NoFetch == page = 1 /\ requests = <<>> /\ fetched = <<>>
NoChannel ==
    /\ active_connections = <<>>
    /\ handler = <<>>
    /\ client_open = <<>>
    /\ removals = <<>>
    /\ send_failed = {}
    /\ broadcast = [at |-> "idle"]
NotAdjusted == [stars |-> FALSE, forks |-> FALSE]
NoGrowth == [total_months |-> 0, factors |-> <<>>]

\* generate_real_analytics_data is entered: lines 243-251.
InitMonthly ==
    /\ \E stars \in 0..MaxStars, forks \in 0..MaxForks, created \in CreatedDates :
          /\ repo_data = Repo(stars, forks, created)
          /\ current_date \in CurrentDates(created)
          /\ stargazers \in StarLists(created)
          /\ current_month = [created EXCEPT !.day = 1]
    /\ contributors = <<>>
    /\ pc = "monthly_loop"
    /\ cumulative_stars = 0
    /\ cumulative_forks = 0
    /\ monthly_history = <<>>
    /\ adjusted = NotAdjusted
    /\ countries = NoCountries
    /\ daily_i = 0
    /\ daily_stars = <<>>
    /\ daily_forks = <<>>
    /\ classification = <<>>
    /\ growth = NoGrowth
    /\ legacy_monthly = NoLegacy /\ NoFetch /\ NoChannel

NextMonthly == MonthlyLoop \/ Reconcile

Spec == InitMonthly /\ [][NextMonthly]_vars

\* ------------------------------------------------------------ claims: monthly history
Returned == pc = "reconciled"
created_date == repo_data.created_at
LastRecord == monthly_history[Len(monthly_history)]

\* C1: whenever stargazers_count > 0, the stars_gained of the returned monthly
\* history sum to stargazers_count exactly, so that the last record's
\* total_stars_after equals stargazers_count.
C1_StarsSumToTotal ==
    (Returned /\ repo_data.stargazers_count > 0)
        => /\ SumOver(monthly_history, "stars_gained") = repo_data.stargazers_count
           /\ LastRecord.total_stars_after = repo_data.stargazers_count

\* C2: whenever forks_count > 0 and the history is not empty, the last record's
\* total_forks_after of the returned monthly history equals forks_count.
C2_ForksReachTotal ==
    (Returned /\ repo_data.forks_count > 0 /\ monthly_history # <<>>)
        => LastRecord.total_forks_after = repo_data.forks_count

\* C3: in the returned monthly history every record has after = before + gained for
\* stars and for forks, the first record starts from 0 and every later record starts
\* from the totals its predecessor ends with, adjusted or not.
C3_CumulativeConsistent ==
    Returned =>
        \A i \in 1..Len(monthly_history) :
            LET r == monthly_history[i]
            IN /\ r.total_stars_after = r.total_stars_before + r.stars_gained
               /\ r.total_forks_after = r.total_forks_before + r.forks_gained
               /\ i = 1 => r.total_stars_before = 0 /\ r.total_forks_before = 0
               /\ i > 1 =>
                    /\ r.total_stars_before = monthly_history[i - 1].total_stars_after
                    /\ r.total_forks_before = monthly_history[i - 1].total_forks_after

\* A returned history of several months whose stars and forks were both adjusted,
\* the adjustment having changed the last month's stars.
C3_Witness ==
    /\ Returned
    /\ Len(monthly_history) >= 2
    /\ adjusted.stars /\ adjusted.forks
    /\ LastRecord.total_stars_after # cumulative_stars
    /\ LastRecord.forks_gained > 0

\* C4: the returned monthly history holds one record per calendar month from the
\* creation month through the current month, in order: its length is
\* (current.year - created.year) * 12 + (current.month - created.month) + 1, record i
\* is month i of that range and the last record is the current month.
C4_OneRecordPerMonth ==
    Returned =>
        /\ Len(monthly_history) = MonthsBetween(current_date, created_date) + 1
        /\ \A i \in 1..Len(monthly_history) :
              LET at == MonthsOn(created_date, i - 1, 1, 0)
              IN monthly_history[i].month_key = <<at.year, at.month>>
        /\ LastRecord.month_key = <<current_date.year, current_date.month>>

SameMonth == /\ created_date.year = current_date.year
             /\ created_date.month = current_date.month

\* C5: a repository created in the current month and year gets a monthly history of
\* exactly one record, whose total_stars_after is stargazers_count.
C5_CreatedThisMonth ==
    (Returned /\ SameMonth)
        => /\ Len(monthly_history) = 1
           /\ monthly_history[1].total_stars_after = repo_data.stargazers_count

\* A repository with stars, created on the current day at an earlier hour, returned.
C5_Witness ==
    /\ Returned
    /\ SameMonth
    /\ created_date.day = current_date.day
    /\ created_date.time < current_date.time
    /\ repo_data.stargazers_count = MaxStars
    /\ monthly_history[1].stars_gained = MaxStars

\* ------------------------------------------------------------ growth curve alone
\* growth_factor of lines 276-297 for progress = 0/T, 1/T, ..., T/T in turn.
GrowthSample ==
    /\ pc = "growth"
    /\ Len(growth.factors) <= growth.total_months
    /\ growth' = [growth EXCEPT
                     !.factors = Append(@, GrowthFactor(Len(@), growth.total_months))]
    /\ UNCHANGED <<repo_data, current_date, stargazers, contributors, pc, current_month,
                   cumulative_stars, cumulative_forks, monthly_history, adjusted,
                   countries, daily_i, daily_stars, daily_forks, classification>>
    /\ UNCHANGED <<legacy_monthly, fetchVars, channelVars>>

InitGrowth ==
    /\ growth \in [total_months : 1..MaxTotalMonths, factors : {<<>>}]
    /\ pc = "growth"
    /\ repo_data = Repo(0, 0, Timestamp(BaseYear, 1, 1, 0))
    /\ current_date = Timestamp(BaseYear, 1, 1, 0)
    /\ current_month = Timestamp(BaseYear, 1, 1, 0)
    /\ stargazers = <<>>
    /\ contributors = <<>>
    /\ cumulative_stars = 0
    /\ cumulative_forks = 0
    /\ monthly_history = <<>>
    /\ adjusted = NotAdjusted
    /\ countries = NoCountries
    /\ daily_i = 0
    /\ daily_stars = <<>>
    /\ daily_forks = <<>>
    /\ classification = <<>>
    /\ legacy_monthly = NoLegacy /\ NoFetch /\ NoChannel

SpecGrowth == InitGrowth /\ [][GrowthSample]_vars

\* ------------------------------------------------------------ claims: growth curve
\* The factor computed for progress = (i - 1) / total_months.
FactorAt(i) == growth.factors[i]

GrowthMonotone ==
    \A i, j \in 1..Len(growth.factors) : i <= j => GfLeq(FactorAt(i), FactorAt(j))

GrowthBounded ==
    \A i \in 1..Len(growth.factors) :
        GfLeq(Rat(0, 1), FactorAt(i)) /\ GfLeq(FactorAt(i), Rat(1, 1))

\* The value of the curve at progress num/den, where that progress is sampled.
GrowthValueAt(num, den, value) ==
    \A i \in 1..Len(growth.factors) :
        (i - 1) * den = num * growth.total_months => GfEq(FactorAt(i), value)

\* C6: the growth factor f(progress) computed in the monthly path is non-decreasing
\* on [0,1], stays within [0,1] and takes the values f(0) = 0, f(0.2) = 0.05,
\* f(0.6) = 0.40 and f(1) = 1.
C6_GrowthCurve ==
    /\ GrowthMonotone
    /\ GrowthBounded
    /\ GrowthValueAt(0, 1, Rat(0, 1))
    /\ GrowthValueAt(1, 5, Rat(1, 20))
    /\ GrowthValueAt(3, 5, Rat(2, 5))
    /\ GrowthValueAt(1, 1, Rat(1, 1))

\* What the code does satisfy: all of C6 but the value at progress 0.6, which is
\* computed just below 0.40.
C6_AllButTheValueAtSixTenths ==
    /\ GrowthMonotone
    /\ GrowthBounded
    /\ GrowthValueAt(0, 1, Rat(0, 1))
    /\ GrowthValueAt(1, 5, Rat(1, 20))
    /\ GrowthValueAt(3, 5, [kind |-> "rat", n |-> 2, d |-> 5, under |-> 1])
    /\ GrowthValueAt(1, 1, Rat(1, 1))

\* ------------------------------------------------------------ text
\* A str is the sequence of its characters.
UpperCase ==
    <<"A", "B", "C", "D", "E", "F", "G", "H", "I", "J", "K", "L", "M", "N", "O", "P", "Q", "R", "S", "T", "U", "V", "W", "X", "Y", "Z">>
LowerCase ==
    <<"a", "b", "c", "d", "e", "f", "g", "h", "i", "j", "k", "l", "m", "n", "o", "p", "q", "r", "s", "t", "u", "v", "w", "x", "y", "z">>

\* str.lower()
Lower(s) ==
    [i \in 1..Len(s) |->
        IF \E k \in 1..Len(UpperCase) : UpperCase[k] = s[i]
        THEN LowerCase[CHOOSE k \in 1..Len(UpperCase) : UpperCase[k] = s[i]]
        ELSE s[i]]

\* keyword in text
Contains(text, keyword) ==
    \E i \in 0..(Len(text) - Len(keyword)) : SubSeq(text, i + 1, i + Len(keyword)) = keyword

\* any(keyword in text for keyword in keywords)
ContainsAny(text, keywords) == \E k \in 1..Len(keywords) : Contains(text, keywords[k])

\* ------------------------------------------------------------ country distribution
\* lines 452-469, in the order of the if / elif chain
CountryKeywords ==
    <<[country |-> "Germany", keywords |-> <<<<"d", "e">>, <<"g", "e", "r", "m", "a", "n">>>>],
      [country |-> "United Kingdom", keywords |-> <<<<"u", "k">>, <<"b", "r", "i", "t">>>>],
      [country |-> "Canada", keywords |-> <<<<"c", "a">>, <<"c", "a", "n", "a", "d", "i", "a", "n">>>>],
      [country |-> "France", keywords |-> <<<<"f", "r">>, <<"f", "r", "e", "n", "c", "h">>>>],
      [country |-> "Japan", keywords |-> <<<<"j", "p">>, <<"j", "a", "p", "a", "n">>>>],
      [country |-> "Australia", keywords |-> <<<<"a", "u">>, <<"a", "u", "s", "s", "i", "e">>>>],
      [country |-> "India", keywords |-> <<<<"i", "n">>, <<"i", "n", "d", "i", "a", "n">>>>],
      [country |-> "Brazil", keywords |-> <<<<"b", "r">>, <<"b", "r", "a", "z", "i", "l">>>>]>>

\* the country of the first branch whose keywords match login.lower(), else the default
CountryOf(login) ==
    LET hits == {k \in 1..Len(CountryKeywords) :
                    ContainsAny(Lower(login), CountryKeywords[k].keywords)}
    IN IF hits = {} THEN "United States"
       ELSE CountryKeywords[CHOOSE k \in hits : \A j \in hits : k <= j].country

\* country_distribution is a dict in insertion order: a sequence of
\* [country, contributions] with distinct countries.
\* country_distribution[country] = country_distribution.get(country, 0) + amount
AddTo(dist, country, amount) ==
    IF \E i \in 1..Len(dist) : dist[i].country = country
    THEN LET i == CHOOSE k \in 1..Len(dist) : dist[k].country = country
         IN [dist EXCEPT ![i].contributions = @ + amount]
    ELSE Append(dist, [country |-> country, contributions |-> amount])

\* contributors[:50]
MaxContributorsUsed == 50

\* the first n items of seq
FirstItems(seq, n) == SubSeq(seq, 1, Min(n, Len(seq)))

RECURSIVE FromContributors(_, _)
\* lines 447-471: the contributors folded into dist in list order
FromContributors(list, dist) ==
    IF list = <<>> THEN dist
    ELSE FromContributors(Tail(list),
                          AddTo(dist, CountryOf(list[1].login), list[1].contributions))

\* lines 479-490, the percentages in hundredths
countries_data ==
    <<[country |-> "United States", percent |-> 35],
      [country |-> "Germany", percent |-> 12],
      [country |-> "United Kingdom", percent |-> 10],
      [country |-> "Canada", percent |-> 8],
      [country |-> "France", percent |-> 7],
      [country |-> "Japan", percent |-> 6],
      [country |-> "Australia", percent |-> 5],
      [country |-> "India", percent |-> 4],
      [country |-> "Brazil", percent |-> 4],
      [country |-> "Netherlands", percent |-> 3]>>

RECURSIVE FromStaticTable(_, _, _)
\* lines 492-495: the countries of the table whose int(total_stars * percentage) > 0
FromStaticTable(k, total_stars, dist) ==
    IF k > Len(countries_data) THEN dist
    ELSE LET stars_count == IntOf(total_stars * countries_data[k].percent, 100)
         IN FromStaticTable(k + 1, total_stars,
                IF stars_count > 0
                THEN AddTo(dist, countries_data[k].country, stars_count)
                ELSE dist)

\* lines 444-495
CountryDistribution(repo, contribs) ==
    LET from_contributors ==
            IF Len(contribs) > 0
            THEN FromContributors(FirstItems(contribs, MaxContributorsUsed), <<>>)
            ELSE <<>>
    IN IF from_contributors = <<>>
       THEN FromStaticTable(1, repo.stargazers_count, <<>>)
       ELSE from_contributors

\* lines 505-508: the count of one country for a metric
CountFor(repo, metric, contributions, total_contributions) ==
    IF metric = "stars"
    THEN IntOf(repo.stargazers_count * contributions, total_contributions)
    ELSE IF metric = "forks"
    THEN IntOf(repo.forks_count * contributions, total_contributions)
    ELSE contributions * 10

RECURSIVE Entries(_, _, _, _)
\* lines 503-515 for one metric: the entries of positive value, in dict order
Entries(dist, total_contributions, repo, metric) ==
    IF dist = <<>> \/ total_contributions <= 0 THEN <<>>
    ELSE LET v == CountFor(repo, metric, dist[1].contributions, total_contributions)
             rest == Entries(Tail(dist), total_contributions, repo, metric)
         IN IF v > 0
            THEN <<[country |-> dist[1].country, value |-> v]>> \o rest
            ELSE rest

\* the entry put behind the entries of sorted whose value is not smaller
RECURSIVE InsertDescending(_, _)
InsertDescending(sorted, entry) ==
    IF sorted = <<>> THEN <<entry>>
    ELSE IF sorted[1].value >= entry.value
         THEN <<sorted[1]>> \o InsertDescending(Tail(sorted), entry)
         ELSE <<entry>> \o sorted

RECURSIVE SortInto(_, _)
SortInto(list, sorted) ==
    IF list = <<>> THEN sorted
    ELSE SortInto(Tail(list), InsertDescending(sorted, list[1]))

\* the list in its order
Unsorted(list) == list

\* list.sort(key = value, reverse = True): stable, by value descending
SortDescending(list) == SortInto(list, <<>>)

\* the whole list
NotCut(list) == list

\* list[:8]
TopEight(list) == FirstItems(list, 8)

\* lines 497-520 and 532-534 for one metric
Ranking(repo, dist, metric) ==
    TopEight(SortDescending(Entries(dist, SumOver(dist, "contributions"), repo, metric)))

\* lines 497-535: the "countries" entry of the bundle
Countries(repo, contribs) ==
    LET dist == CountryDistribution(repo, contribs)
    IN [stars |-> Ranking(repo, dist, "stars"),
        forks |-> Ranking(repo, dist, "forks"),
        clones |-> Ranking(repo, dist, "clones")]

\* The divisor of lines 502-506: total_contributions, divided by for each country
\* of the distribution when it is positive (line 503).
CountryDivisors(repo, contribs) ==
    LET dist == CountryDistribution(repo, contribs)
        total_contributions == SumOver(dist, "contributions")
    IN IF dist # <<>> /\ total_contributions > 0 THEN {total_contributions} ELSE {}

\* lines 443-535
EstimateCountries ==
    /\ pc = "countries"
    /\ IF ZeroDivision(CountryDivisors(repo_data, contributors))
       THEN Raise
       ELSE /\ countries' = Countries(repo_data, contributors)
            /\ pc' = "countries_done"
            /\ UNCHANGED <<repo_data, current_date, stargazers, contributors, current_month,
                           cumulative_stars, cumulative_forks, monthly_history, adjusted,
                           daily_i, daily_stars, daily_forks, classification, growth>>
            /\ UNCHANGED <<legacy_monthly, fetchVars, channelVars>>

\* Gerdes, lukas, octocat, fritz, jpn, paul, kevin, bruno, bob, Indeed
Logins ==
    <<<<"G", "e", "r", "d", "e", "s">>,
      <<"l", "u", "k", "a", "s">>,
      <<"o", "c", "t", "o", "c", "a", "t">>,
      <<"f", "r", "i", "t", "z">>,
      <<"j", "p", "n">>,
      <<"p", "a", "u", "l">>,
      <<"k", "e", "v", "i", "n">>,
      <<"b", "r", "u", "n", "o">>,
      <<"b", "o", "b">>,
      <<"I", "n", "d", "e", "e", "d">>>>

\* The contributor at position i of a list whose counts follow pattern p:
\* contributions = (i * p) mod (MaxContributions + 1); pattern 0 is all zeros.
Contributor(login, i, p) ==
    [login |-> login, contributions |-> (i * p) % (MaxContributions + 1)]

RECURSIVE Repeated(_, _)
Repeated(seq, times) == IF times = 0 THEN <<>> ELSE seq \o Repeated(seq, times - 1)

\* The contributor lists: a run of Logins, once or often enough to pass the 50 used.
ContributorLists ==
    {LET logins == Repeated(SubSeq(Logins, i, j), times)
     IN [k \in 1..Len(logins) |-> Contributor(logins[k], k, p)] :
        i \in 1..Len(Logins), j \in 0..Len(Logins), times \in {1, 6},
        p \in 0..MaxPattern}

InitCountries ==
    /\ \E stars \in 0..MaxStars, forks \in 0..MaxForks :
          repo_data = Repo(stars, forks, Timestamp(BaseYear, 1, 1, 0))
    /\ contributors \in ContributorLists
    /\ pc = "countries"
    /\ current_date = Timestamp(BaseYear, 1, 1, 0)
    /\ current_month = Timestamp(BaseYear, 1, 1, 0)
    /\ stargazers = <<>>
    /\ cumulative_stars = 0
    /\ cumulative_forks = 0
    /\ monthly_history = <<>>
    /\ adjusted = NotAdjusted
    /\ countries = NoCountries
    /\ daily_i = 0
    /\ daily_stars = <<>>
    /\ daily_forks = <<>>
    /\ classification = <<>>
    /\ growth = NoGrowth
    /\ legacy_monthly = NoLegacy /\ NoFetch /\ NoChannel

SpecCountries == InitCountries /\ [][EstimateCountries]_vars

\* ------------------------------------------------------------ claims: countries
Metrics == {"stars", "forks", "clones"}

\* C7: each of the three returned country distributions has at most 8 entries, no
\* entry of value 0, and values that do not increase from one entry to the next.
C7_CountriesRanked ==
    pc = "countries_done" =>
        \A metric \in Metrics :
            LET list == countries[metric]
            IN /\ Len(list) <= 8
               /\ \A i \in 1..Len(list) : list[i].value # 0
               /\ \A i \in 1..(Len(list) - 1) : list[i].value >= list[i + 1].value

\* Contributors of nine countries: eight clone entries are returned, in an order
\* that is not the order the countries were met in, and a country with stars is kept
\* while another has none.
C7_Witness ==
    /\ pc = "countries_done"
    /\ Cardinality({CountryOf(contributors[k].login) : k \in 1..Len(contributors)}) = 9
    /\ Len(countries.clones) = 8
    /\ countries.clones[1].value > countries.clones[8].value
    /\ countries.clones[1].country # CountryOf(contributors[1].login)
    /\ Len(countries.stars) \in 1..7

\* The fallback table in use: no contributors, and the repository's stars spread
\* over several countries.
C7_StaticWitness ==
    /\ pc = "countries_done"
    /\ contributors = <<>>
    /\ Len(countries.stars) >= 2
    /\ Len(countries.forks) >= 1

\* ------------------------------------------------------------ calendar
\* The proleptic Gregorian calendar of datetime: date.toordinal, date.fromordinal
\* and date.weekday, which carry today - timedelta(days=i) and strftime("%Y-%m-%d").
IsLeap(y) == y % 4 = 0 /\ (y % 100 # 0 \/ y % 400 = 0)

DaysInMonth(y, m) ==
    IF m = 2 THEN (IF IsLeap(y) THEN 29 ELSE 28)
    ELSE IF m \in {4, 6, 9, 11} THEN 30 ELSE 31

\* the days before January 1st of year y
DaysBeforeYear(y) ==
    (y - 1) * 365 + (y - 1) \div 4 - (y - 1) \div 100 + (y - 1) \div 400

RECURSIVE DaysBeforeMonth(_, _)
\* the days of year y before the first of month m
DaysBeforeMonth(y, m) ==
    IF m = 1 THEN 0 ELSE DaysBeforeMonth(y, m - 1) + DaysInMonth(y, m - 1)

\* date.toordinal()
Ordinal(ts) == DaysBeforeYear(ts.year) + DaysBeforeMonth(ts.year, ts.month) + ts.day

Years == (BaseYear - 3)..(BaseYear + 3)

\* date.fromordinal(n), at time of day t
FromOrdinal(n, t) ==
    LET y == CHOOSE yy \in Years : DaysBeforeYear(yy) < n /\ n <= DaysBeforeYear(yy + 1)
        rest == n - DaysBeforeYear(y)
        m == CHOOSE mm \in 1..12 :
                DaysBeforeMonth(y, mm) < rest
                    /\ rest <= DaysBeforeMonth(y, mm) + DaysInMonth(y, mm)
    IN Timestamp(y, m, rest - DaysBeforeMonth(y, m), t)

\* ts - timedelta(days = n)
DaysBefore(ts, n) == FromOrdinal(Ordinal(ts) - n, ts.time)

\* date.weekday(): 0 is Monday
Weekday(ts) == (Ordinal(ts) + 6) % 7

\* (a - b).days
DaysBetween(a, b) ==
    Ordinal(a) - Ordinal(b) - (IF a.time < b.time THEN 1 ELSE 0)

\* strftime("%Y-%m-%d")
DateStr(ts) == <<ts.year, ts.month, ts.day>>

\* ------------------------------------------------------------ daily window
RECURSIVE CountOnDayUnchecked(_, _)
\* the count that takes the date of every event, whatever its starred_at is
CountOnDayUnchecked(events, date) ==
    IF events = <<>> THEN 0
    ELSE (IF DateStr(events[1].at) = DateStr(date) THEN 1 ELSE 0)
             + CountOnDayUnchecked(Tail(events), date)

RECURSIVE CountOnDay(_, _)
\* lines 552-560: the events whose starred_at parses and falls on the date of `date`
CountOnDay(events, date) ==
    IF events = <<>> THEN 0
    ELSE (IF events[1].kind = "iso" /\ DateStr(events[1].at) = DateStr(date)
          THEN 1 ELSE 0) + CountOnDay(Tail(events), date)

\* The values int(x * factor) takes for x = n/d >= 0 as factor ranges over the
\* interval [lo/10, hi/10) that random.random() spreads it over.
Spread(n, d, lo, hi) ==
    IF n = 0 THEN {0}
    ELSE (lo * n) \div (10 * d) .. (hi * n - 1) \div (10 * d)

\* The same with the upper end included: 0.8 + random.random() * 0.4 rounds to 1.2
\* for the largest value random.random() returns, 1 - 2^-53 (0.7 + random.random()
\* * 0.6 stays below 1.3).  Where the binary64 product falls short of the upper end
\* this set holds one value the code does not produce.
SpreadClosed(n, d, lo, hi) == (lo * n) \div (10 * d) .. (hi * n) \div (10 * d)

\* lines 565-592: the stars of the day i days ago when the events are too few
ModeledDailyStars(repo, today, date, i) ==
    LET repo_age_days == DaysBetween(today, repo.created_at)
        total_stars == repo.stargazers_count
        \* recency_factor = (80 - i) / 50, weekday_factor = 6/5 or 3/5
        weekday_fifths == IF Weekday(date) < 5 THEN 6 ELSE 3
        max_daily == Max(1, total_stars \div 20)
    IN IF repo_age_days > 0
       THEN {Min(Max(0, s), max_daily) :
                s \in Spread(total_stars * (80 - i) * weekday_fifths,
                             repo_age_days * 250, 7, 13)}
       ELSE {0}

\* lines 552-592: the values stars_count may take for the day i days ago
DailyStars(repo, events, today, i) ==
    LET date == DaysBefore(today, i)
    IN IF Len(events) < 10
       THEN ModeledDailyStars(repo, today, date, i)
       ELSE {CountOnDay(events, date)}

\* lines 595-596: the values forks_count may take; fork_ratio = min(0.3, forks / stars)
DailyForks(repo, stars_count) ==
    LET stars == Max(1, repo.stargazers_count)
        capped == 10 * repo.forks_count >= 3 * stars
        n == IF capped THEN 3 * stars_count ELSE repo.forks_count * stars_count
        d == IF capped THEN 10 ELSE stars
    IN SpreadClosed(n, d, 8, 12)

\* lines 602-612
DailyRecord(date, value, earlier) ==
    [date |-> DateStr(date), value |-> value,
     cumulative |-> SumOver(earlier, "value") + value]

\* range(30, -1, -1) has run out
AtOrPastToday(i) == i <= 0
WindowDone(i) == i < 0

\* The divisors of an iteration of the daily loop: repo_age_days when the modeled
\* rate is computed (lines 563-570) and max(1, stargazers_count) (line 595).
DailyDivisors(repo, events, today) ==
    LET repo_age_days == DaysBetween(today, repo.created_at)
    IN (IF Len(events) < 10 /\ repo_age_days > 0 THEN {repo_age_days} ELSE {})
           \cup {Max(1, repo.stargazers_count)}

\* One iteration of the loop of lines 547-612.
DailyLoop ==
    /\ pc = "daily"
    /\ ~WindowDone(daily_i)
    /\ IF ZeroDivision(DailyDivisors(repo_data, stargazers, current_date))
       THEN Raise
       ELSE /\ \E stars_count \in DailyStars(repo_data, stargazers, current_date, daily_i) :
                  \E forks_count \in DailyForks(repo_data, stars_count) :
                     LET date == DaysBefore(current_date, daily_i)
                     IN /\ daily_stars' = Append(daily_stars,
                                                 DailyRecord(date, stars_count, daily_stars))
                        /\ daily_forks' = Append(daily_forks,
                                                 DailyRecord(date, forks_count, daily_forks))
            /\ daily_i' = daily_i - 1
            /\ UNCHANGED <<repo_data, current_date, stargazers, contributors, pc, current_month,
                           cumulative_stars, cumulative_forks, monthly_history, adjusted,
                           countries, classification, growth>>
            /\ UNCHANGED <<legacy_monthly, fetchVars, channelVars>>

\* lines 614-617
DailyReturn ==
    /\ pc = "daily"
    /\ WindowDone(daily_i)
    /\ pc' = "daily_done"
    /\ UNCHANGED <<repo_data, current_date, stargazers, contributors, current_month,
                   cumulative_stars, cumulative_forks, monthly_history, adjusted,
                   countries, daily_i, daily_stars, daily_forks, classification, growth>>
    /\ UNCHANGED <<legacy_monthly, fetchVars, channelVars>>

\* The current days: the windows run over a leap day, over February of a common
\* year, over a new year and over the end of a 31-day month.
Todays ==
    {Timestamp(BaseYear + 1, 3, 10, 12), Timestamp(BaseYear, 3, 5, 0),
     Timestamp(BaseYear + 1, 1, 10, 0), Timestamp(BaseYear, 8, 15, 12)}

\* Creation timestamps: today at midnight, 24 days ago and 400 days ago.
CreatedBefore(today) == {[DaysBefore(today, n) EXCEPT !.time = 0] : n \in {0, 24, 400}}

\* `times` events starred on the day n days before today
StarredDaysAgo(today, n, times) ==
    [k \in 1..times |-> StarEvent("iso", DaysBefore(today, n))]

\* Star-event lists: none; three events, one of them malformed; twelve events, ten of
\* one day and one that carries no starred_at.
DailyStarLists(today) ==
    {<<>>,
     StarredDaysAgo(today, 2, 2) \o <<StarEvent("malformed", today)>>,
     StarredDaysAgo(today, 3, 10) \o <<StarEvent("absent", today)>>
        \o StarredDaysAgo(today, 0, 1)}

\* generate_daily_analytics is entered: lines 540-547.
InitDaily ==
    /\ \E stars \in 0..MaxStars, forks \in 0..MaxForks, today \in Todays :
          /\ current_date = today
          /\ \E created \in CreatedBefore(today) : repo_data = Repo(stars, forks, created)
          /\ stargazers \in DailyStarLists(today)
          /\ current_month = today
    /\ pc = "daily"
    /\ daily_i = 30
    /\ daily_stars = <<>>
    /\ daily_forks = <<>>
    /\ contributors = <<>>
    /\ cumulative_stars = 0
    /\ cumulative_forks = 0
    /\ monthly_history = <<>>
    /\ adjusted = NotAdjusted
    /\ countries = NoCountries
    /\ classification = <<>>
    /\ growth = NoGrowth
    /\ legacy_monthly = NoLegacy /\ NoFetch /\ NoChannel

NextDaily == DailyLoop \/ DailyReturn

SpecDaily == InitDaily /\ [][NextDaily]_vars

\* ------------------------------------------------------------ claims: daily window
\* The calendar day after <<year, month, day>>.
DayAfter(date) ==
    IF date[3] < DaysInMonth(date[1], date[2]) THEN <<date[1], date[2], date[3] + 1>>
    ELSE IF date[2] < 12 THEN <<date[1], date[2] + 1, 1>>
    ELSE <<date[1] + 1, 1, 1>>

RECURSIVE DaysAfter(_, _)
DaysAfter(date, n) == IF n = 0 THEN date ELSE DaysAfter(DayAfter(date), n - 1)

ConsecutiveDays(list) ==
    \A k \in 1..(Len(list) - 1) : list[k + 1].date = DayAfter(list[k].date)

\* C8: generate_daily_analytics returns, for stars and for forks, exactly 31 records
\* of consecutive calendar days, the first 30 days before the current day and the
\* last the current day.
C8_DailyWindow ==
    pc = "daily_done" =>
        \A list \in {daily_stars, daily_forks} :
            /\ Len(list) = 31
            /\ ConsecutiveDays(list)
            /\ list[31].date = DateStr(current_date)
            /\ DaysAfter(list[1].date, 30) = DateStr(current_date)

\* A returned window built from real counts (ten events or more) that runs over a
\* leap day, with stars and forks on a day.
C8_Witness ==
    /\ pc = "daily_done"
    /\ Len(stargazers) >= 10
    /\ \E k \in 1..Len(daily_stars) :
          /\ daily_stars[k].date[2] = 2 /\ daily_stars[k].date[3] = 29
    /\ \E k \in 1..Len(daily_stars) : daily_stars[k].value = 10 /\ daily_forks[k].value > 0

\* A returned window built from the modeled rate, over a new year, where the random
\* factor decided a day's stars.
C8_ModeledWitness ==
    /\ pc = "daily_done"
    /\ Len(stargazers) < 10
    /\ daily_stars[1].date[1] # daily_stars[31].date[1]
    /\ \E k \in 1..Len(daily_stars) : daily_stars[k].value > 0
    /\ \E k \in 1..Len(daily_stars) :
          daily_stars[k].value = 0 /\ DailyStars(repo_data, stargazers, current_date, 31 - k) # {0}

\* ------------------------------------------------------------ classifier
\* Python's None
None == "None"

\* repo_data.get("language", "Unknown"): the key's value when the key is there
PrimaryLanguage(repo) ==
    IF repo.language.present THEN repo.language.value ELSE "Unknown"

\* (repo_data.get("description") or "").lower()
DescriptionOf(repo) ==
    IF repo.description.none THEN <<>> ELSE Lower(repo.description.text)

\* lines 130-139, in the order of the if / elif chain
FrameworkKeywords ==
    <<[framework |-> "React/Next.js", keywords |-> <<<<"r", "e", "a", "c", "t">>, <<"n", "e", "x", "t", "j", "s">>, <<"n", "e", "x", "t", ".", "j", "s">>>>],
      [framework |-> "Vue.js", keywords |-> <<<<"v", "u", "e">>, <<"v", "u", "e", "j", "s">>, <<"n", "u", "x", "t">>>>],
      [framework |-> "Angular", keywords |-> <<<<"a", "n", "g", "u", "l", "a", "r">>>>],
      [framework |-> "Python Web Framework", keywords |-> <<<<"d", "j", "a", "n", "g", "o">>, <<"f", "l", "a", "s", "k">>, <<"f", "a", "s", "t", "a", "p", "i">>>>],
      [framework |-> "Node.js", keywords |-> <<<<"e", "x", "p", "r", "e", "s", "s">>, <<"n", "o", "d", "e">>>>]>>

\* the category table without the keyword "component"
CategoryKeywordsWithoutComponent ==
    <<[category |-> "Backend", keywords |-> <<<<"a", "p", "i">>, <<"b", "a", "c", "k", "e", "n", "d">>, <<"s", "e", "r", "v", "e", "r">>>>],
      [category |-> "Frontend", keywords |-> <<<<"f", "r", "o", "n", "t", "e", "n", "d">>, <<"u", "i">>>>],
      [category |-> "Mobile", keywords |-> <<<<"m", "o", "b", "i", "l", "e">>, <<"i", "o", "s">>, <<"a", "n", "d", "r", "o", "i", "d">>>>],
      [category |-> "AI/ML", keywords |-> <<<<"m", "l">>, <<"a", "i">>, <<"m", "a", "c", "h", "i", "n", "e", " ", "l", "e", "a", "r", "n", "i", "n", "g">>, <<"n", "e", "u", "r", "a", "l">>>>],
      [category |-> "Gaming", keywords |-> <<<<"g", "a", "m", "e">>, <<"g", "a", "m", "i", "n", "g">>>>],
      [category |-> "Tool/Utility", keywords |-> <<<<"t", "o", "o", "l">>, <<"c", "l", "i">>, <<"u", "t", "i", "l", "i", "t", "y">>>>]>>

\* lines 142-153
CategoryKeywords ==
    <<[category |-> "Backend", keywords |-> <<<<"a", "p", "i">>, <<"b", "a", "c", "k", "e", "n", "d">>, <<"s", "e", "r", "v", "e", "r">>>>],
      [category |-> "Frontend", keywords |-> <<<<"f", "r", "o", "n", "t", "e", "n", "d">>, <<"u", "i">>, <<"c", "o", "m", "p", "o", "n", "e", "n", "t">>>>],
      [category |-> "Mobile", keywords |-> <<<<"m", "o", "b", "i", "l", "e">>, <<"i", "o", "s">>, <<"a", "n", "d", "r", "o", "i", "d">>>>],
      [category |-> "AI/ML", keywords |-> <<<<"m", "l">>, <<"a", "i">>, <<"m", "a", "c", "h", "i", "n", "e", " ", "l", "e", "a", "r", "n", "i", "n", "g">>, <<"n", "e", "u", "r", "a", "l">>>>],
      [category |-> "Gaming", keywords |-> <<<<"g", "a", "m", "e">>, <<"g", "a", "m", "i", "n", "g">>>>],
      [category |-> "Tool/Utility", keywords |-> <<<<"t", "o", "o", "l">>, <<"c", "l", "i">>, <<"u", "t", "i", "l", "i", "t", "y">>>>]>>

\* lines 158-161
TypeKeywords ==
    <<[type |-> "Library", keywords |-> <<<<"l", "i", "b", "r", "a", "r", "y">>, <<"p", "a", "c", "k", "a", "g", "e">>, <<"n", "p", "m">>, <<"p", "i", "p">>>>],
      [type |-> "Template", keywords |-> <<<<"t", "e", "m", "p", "l", "a", "t", "e">>, <<"b", "o", "i", "l", "e", "r", "p", "l", "a", "t", "e">>, <<"s", "t", "a", "r", "t", "e", "r">>>>]>>

\* The first row of an if / elif table whose keywords match one of the texts; 0 if none.
FirstMatch(rows, texts) ==
    LET hits == {k \in 1..Len(rows) :
                    \E t \in 1..Len(texts) : ContainsAny(texts[t], rows[k].keywords)}
    IN IF hits = {} THEN 0 ELSE CHOOSE k \in hits : \A j \in hits : k <= j

\* lines 117-165
classify_repository(repo) ==
    LET description == DescriptionOf(repo)
        name == Lower(repo.name)
        framework == FirstMatch(FrameworkKeywords, <<description, name>>)
        category == FirstMatch(CategoryKeywords, <<description>>)
        type == FirstMatch(TypeKeywords, <<description>>)
    IN [primary_language |-> PrimaryLanguage(repo),
        type |-> IF repo.fork THEN "Fork"
                 ELSE IF type = 0 THEN "Project" ELSE TypeKeywords[type].type,
        framework |-> IF framework = 0 THEN "Unknown"
                      ELSE FrameworkKeywords[framework].framework,
        category |-> IF category = 0 THEN "Unknown"
                     ELSE CategoryKeywords[category].category]

\* A call of classify_repository on the snapshot (line 80); the snapshot is classified
\* twice.
Classify ==
    /\ pc = "classify"
    /\ Len(classification) < 2
    /\ classification' = Append(classification, classify_repository(repo_data))
    /\ UNCHANGED <<repo_data, current_date, stargazers, contributors, pc, current_month,
                   cumulative_stars, cumulative_forks, monthly_history, adjusted,
                   countries, daily_i, daily_stars, daily_forks, growth>>
    /\ UNCHANGED <<legacy_monthly, fetchVars, channelVars>>

Text(chars) == [none |-> FALSE, text |-> chars]
NoDescription == [none |-> TRUE, text |-> <<>>]

\* "A React component library" / "Vue starter template" / "Django REST api server" / "CLI tool" / "Angular mobile app" / "" / None
Descriptions ==
    {Text(<<"A", " ", "R", "e", "a", "c", "t", " ", "c", "o", "m", "p", "o", "n", "e", "n", "t", " ", "l", "i", "b", "r", "a", "r", "y">>),
     Text(<<"V", "u", "e", " ", "s", "t", "a", "r", "t", "e", "r", " ", "t", "e", "m", "p", "l", "a", "t", "e">>),
     Text(<<"D", "j", "a", "n", "g", "o", " ", "R", "E", "S", "T", " ", "a", "p", "i", " ", "s", "e", "r", "v", "e", "r">>),
     Text(<<"C", "L", "I", " ", "t", "o", "o", "l">>),
     Text(<<"A", "n", "g", "u", "l", "a", "r", " ", "m", "o", "b", "i", "l", "e", " ", "a", "p", "p">>),
     Text(<<>>),
     NoDescription}

\* widgets, nextjs-kit, flask-api
Names ==
    {<<"w", "i", "d", "g", "e", "t", "s">>,
     <<"n", "e", "x", "t", "j", "s", "-", "k", "i", "t">>,
     <<"f", "l", "a", "s", "k", "-", "a", "p", "i">>}

\* The "language" key: missing, null, or a language.
Languages ==
    {[present |-> FALSE, value |-> None], [present |-> TRUE, value |-> None],
     [present |-> TRUE, value |-> "Python"], [present |-> TRUE, value |-> "TypeScript"]}

InitClassify ==
    /\ repo_data \in [stargazers_count : {0}, forks_count : {0},
                      created_at : {Timestamp(BaseYear, 1, 1, 0)},
                      language : Languages, description : Descriptions,
                      name : Names, fork : BOOLEAN]
    /\ pc = "classify"
    /\ classification = <<>>
    /\ current_date = Timestamp(BaseYear, 1, 1, 0)
    /\ current_month = Timestamp(BaseYear, 1, 1, 0)
    /\ stargazers = <<>>
    /\ contributors = <<>>
    /\ cumulative_stars = 0
    /\ cumulative_forks = 0
    /\ monthly_history = <<>>
    /\ adjusted = NotAdjusted
    /\ countries = NoCountries
    /\ daily_i = 0
    /\ daily_stars = <<>>
    /\ daily_forks = <<>>
    /\ growth = NoGrowth
    /\ legacy_monthly = NoLegacy /\ NoFetch /\ NoChannel

SpecClassify == InitClassify /\ [][Classify]_vars

\* ------------------------------------------------------------ claims: classifier
\* A non-fork repository described as "A React component library" whose name holds
\* no keyword of the framework table.
ReactComponentLibrary ==
    /\ ~repo_data.fork
    /\ repo_data.description = Text(<<"A", " ", "R", "e", "a", "c", "t", " ", "c", "o", "m", "p", "o", "n", "e", "n", "t", " ", "l", "i", "b", "r", "a", "r", "y">>)
    /\ FirstMatch(FrameworkKeywords, <<Lower(repo_data.name)>>) = 0

Deterministic ==
    Len(classification) = 2 => classification[1] = classification[2]

\* C9 as stated: classify_repository is deterministic, and for the React component
\* library it returns framework "React/Next.js", type "Library" and category
\* "Unknown".
C9_AsStated ==
    /\ Deterministic
    /\ ReactComponentLibrary =>
          \A k \in 1..Len(classification) :
              /\ classification[k].framework = "React/Next.js"
              /\ classification[k].type = "Library"
              /\ classification[k].category = "Unknown"

\* C9 amended: classify_repository is deterministic, and for the React component
\* library it returns framework "React/Next.js", type "Library" and category
\* "Frontend": the description holds the Frontend keyword "component".
C9_ReactLibraryIsFrontend ==
    /\ Deterministic
    /\ ReactComponentLibrary =>
          \A k \in 1..Len(classification) :
              /\ classification[k].framework = "React/Next.js"
              /\ classification[k].type = "Library"
              /\ classification[k].category = "Frontend"

\* The React component library, classified twice.
C9_Witness ==
    /\ ReactComponentLibrary
    /\ Len(classification) = 2

\* C10: primary_language is the metadata's language when it carries one and
\* "Unknown" when it carries none, the key being missing or null.
C10_PrimaryLanguage ==
    \A k \in 1..Len(classification) :
        classification[k].primary_language =
            IF repo_data.language.present /\ repo_data.language.value # None
            THEN repo_data.language.value
            ELSE "Unknown"

\* ------------------------------------------------------------ legacy monthly lists
\* The exact quotients below agree with the binary64 products of the source for
\* stargazers_count and forks_count below 72 (base_stars, base_forks at most 5) and
\* for base_clones = 10; the specifications stay inside that range.
RECURSIVE CountInMonthName(_, _)
\* lines 399-408: the events whose starred_at parses and whose month, of whatever
\* year, is the k-th of `months`
CountInMonthName(events, k) ==
    IF events = <<>> THEN 0
    ELSE (IF events[1].kind = "iso" /\ events[1].at.month = k THEN 1 ELSE 0)
             + CountInMonthName(Tail(events), k)

\* total_stargazers_processed of lines 398-406
TotalStargazersProcessed(events) ==
    CountInMonthName(events, 1) + CountInMonthName(events, 2) + CountInMonthName(events, 3)
        + CountInMonthName(events, 4) + CountInMonthName(events, 5)
        + CountInMonthName(events, 6) + CountInMonthName(events, 7)
        + CountInMonthName(events, 8) + CountInMonthName(events, 9)
        + CountInMonthName(events, 10) + CountInMonthName(events, 11)
        + CountInMonthName(events, 12)

\* line 411: total_stargazers_processed < stargazers_count * 0.1
TooFewProcessed(repo, events) ==
    10 * TotalStargazersProcessed(events) < repo.stargazers_count

\* lines 413-418 for the k-th month (i = k - 1): int(base_stars * (0.5 + (i + 1) / 12))
DistributedStars(repo, k) ==
    LET base_stars == Max(1, repo.stargazers_count \div 12)
    IN IntOf(base_stars * (k + 6), 12)

\* lines 388-421: monthly_stars_list
LegacyStars(repo, events) ==
    [k \in 1..12 |->
        [month |-> MonthAbbr[k],
         value |-> IF TooFewProcessed(repo, events)
                   THEN DistributedStars(repo, k)
                   ELSE CountInMonthName(events, k)]]

\* lines 423-431: monthly_forks_list
LegacyForks(repo) ==
    LET total_forks == repo.forks_count
        base_forks == Max(1, total_forks \div 12)
        variation == Max(0, IntOf(3 * base_forks, 10))
    IN [k \in 1..12 |->
           [month |-> MonthAbbr[k],
            value |-> Min(base_forks + ((k - 1) % 3) * variation, total_forks)]]

\* lines 433-441: monthly_clones_list; month_multiplier = (4 + i) / 8 and
\* seasonal_factor = (20 + |6 - i|) / 20 for i = k - 1
LegacyClones(repo) ==
    LET base_clones == Max(10, repo.stargazers_count \div 50)
    IN [k \in 1..12 |->
           [month |-> MonthAbbr[k],
            value |-> Max(1, IntOf(base_clones * (3 + k) * (20 + Abs(7 - k)), 160))]]

\* lines 386-441
LegacyMonthly ==
    /\ pc = "reconciled"
    /\ legacy_monthly' = [stars |-> LegacyStars(repo_data, stargazers),
                          forks |-> LegacyForks(repo_data),
                          clones |-> LegacyClones(repo_data)]
    /\ pc' = "countries"
    /\ UNCHANGED <<repo_data, current_date, stargazers, contributors, current_month,
                   cumulative_stars, cumulative_forks, monthly_history, adjusted,
                   countries, daily_i, daily_stars, daily_forks, classification, growth,
                   fetchVars, channelVars>>

\* line 523: generate_daily_analytics is called (lines 540-547); its `today` is read
\* from the clock again and is taken to be the current_date of the caller.
EnterDaily ==
    /\ pc = "countries_done"
    /\ daily_i' = 30
    /\ daily_stars' = <<>>
    /\ daily_forks' = <<>>
    /\ pc' = "daily"
    /\ UNCHANGED <<repo_data, current_date, stargazers, contributors, current_month,
                   cumulative_stars, cumulative_forks, monthly_history, adjusted,
                   countries, classification, growth, legacy_monthly, fetchVars,
                   channelVars>>

\* lines 525-538: the bundle is returned
ReturnBundle ==
    /\ pc = "daily_done"
    /\ pc' = "returned"
    /\ UNCHANGED <<repo_data, current_date, stargazers, contributors, current_month,
                   cumulative_stars, cumulative_forks, monthly_history, adjusted,
                   countries, daily_i, daily_stars, daily_forks, classification, growth,
                   legacy_monthly, fetchVars, channelVars>>

\* ------------------------------------------------------------ the whole synthesis
\* The current timestamp of the whole-synthesis runs.
BundleToday == Timestamp(BaseYear + 1, 3, 10, 12)

BundleStars == {0, 1, MaxStars}
BundleForks == {0, MaxForks}

\* Star-event lists: those of the daily specification; nine events of today and one
\* with a malformed starred_at; ten events without starred_at.
BundleStarLists(today) ==
    DailyStarLists(today)
        \cup {StarredDaysAgo(today, 0, 9) \o <<StarEvent("malformed", today)>>,
              [k \in 1..10 |-> StarEvent("absent", today)]}

\* Contributor lists: none, two contributors without contributions, three with some.
BundleContributorLists ==
    {<<>>,
     [k \in 1..2 |-> Contributor(Logins[k], k, 0)],
     [k \in 1..3 |-> Contributor(Logins[k], k, 1)]}

\* generate_real_analytics_data is entered: lines 235-251.
InitBundle ==
    /\ \E stars \in BundleStars, forks \in BundleForks,
          created \in CreatedBefore(BundleToday) :
          /\ repo_data = Repo(stars, forks, created)
          /\ current_month = [created EXCEPT !.day = 1]
    /\ current_date = BundleToday
    /\ stargazers \in BundleStarLists(BundleToday)
    /\ contributors \in BundleContributorLists
    /\ pc = "monthly_loop"
    /\ cumulative_stars = 0
    /\ cumulative_forks = 0
    /\ monthly_history = <<>>
    /\ adjusted = NotAdjusted
    /\ countries = NoCountries
    /\ daily_i = 0
    /\ daily_stars = <<>>
    /\ daily_forks = <<>>
    /\ classification = <<>>
    /\ growth = NoGrowth
    /\ legacy_monthly = NoLegacy /\ NoFetch /\ NoChannel

NextBundle ==
    \/ MonthlyLoop
    \/ Reconcile
    \/ LegacyMonthly
    \/ EstimateCountries
    \/ EnterDaily
    \/ DailyLoop
    \/ DailyReturn
    \/ ReturnBundle

SpecBundle == InitBundle /\ [][NextBundle]_vars

\* ------------------------------------------------------------ claims: malformed events
\* The events of the list whose starred_at is a timestamp, in list order.
WellFormed(events) == SelectSeq(events, LAMBDA e : e.kind = "iso")

\* The number of events with a timestamp for which Test(timestamp) holds.
WellFormedCount(events, Test(_)) ==
    Cardinality({k \in DOMAIN events : events[k].kind = "iso" /\ Test(events[k].at)})

\* The day the k-th record of the daily window stands for: 31 - k days before today.
WindowDay(k) == DaysBefore(current_date, 31 - k)

\* No step of the synthesis has raised, every month of the history counts the
\* well-formed events of that month only, and once the legacy lists are there they
\* are the lists of the well-formed events alone.
MonthBucketsSkipMalformed ==
    /\ pc # "raised"
    /\ \A i \in 1..Len(monthly_history) :
          LET m == monthly_history[i].date
          IN CountInMonth(stargazers, m)
                 = WellFormedCount(stargazers,
                                   LAMBDA at : at.year = m.year /\ at.month = m.month)
    /\ legacy_monthly # NoLegacy =>
          \A k \in 1..12 :
             legacy_monthly.stars[k].value =
                 IF 10 * WellFormedCount(stargazers, LAMBDA at : TRUE)
                        < repo_data.stargazers_count
                 THEN DistributedStars(repo_data, k)
                 ELSE WellFormedCount(stargazers, LAMBDA at : at.month = k)

\* C11 as stated: for star-event lists in which some events have an absent, empty or
\* unparseable starred_at, the monthly synthesis, the legacy monthly aggregation and
\* the daily window synthesis complete without raising, no such event is counted in
\* a month bucket or a day bucket, and every well-formed event is counted as if the
\* malformed ones were not in the list: every day of the window holds a value the
\* list of the well-formed events alone gives it.
C11_AsIfNotInTheList ==
    /\ MonthBucketsSkipMalformed
    /\ \A k \in 1..Len(daily_stars) :
          daily_stars[k].value
              \in DailyStars(repo_data, WellFormed(stargazers), current_date, 31 - k)

\* What holds of C11: no step raises and no malformed event is counted, but in the
\* daily window the events with an absent, empty or unparseable starred_at still
\* count toward the ten events below which the modeled rate replaces the counts:
\* with ten or more events in the list, malformed ones included, every day holds the
\* number of well-formed events of that day, with fewer every day holds a modeled
\* value.
C11_MalformedEventsSkipped ==
    /\ MonthBucketsSkipMalformed
    /\ \A k \in 1..Len(daily_stars) :
          daily_stars[k].value \in
              IF Len(stargazers) < 10
              THEN ModeledDailyStars(repo_data, current_date, WindowDay(k), 31 - k)
              ELSE {WellFormedCount(stargazers,
                                    LAMBDA at : DateStr(at) = DateStr(WindowDay(k)))}

\* A returned bundle for a list with an event without starred_at next to eleven
\* well-formed ones: the counts are used, ten on one day and one on another, and the
\* legacy list of March holds the eleven.
C11_Witness ==
    /\ pc = "returned"
    /\ \E k \in DOMAIN stargazers : stargazers[k].kind = "absent"
    /\ Len(WellFormed(stargazers)) = 11
    /\ \E j \in 1..Len(daily_stars) : daily_stars[j].value = 10
    /\ daily_stars[31].value = 1
    /\ legacy_monthly.stars[3].value = 11

\* ------------------------------------------------------------ claims: division by zero
\* The bundle of lines 525-538 with all its parts.
CompleteBundle ==
    /\ monthly_history # <<>>
    /\ \A name \in {"stars", "forks", "clones"} :
          /\ Len(legacy_monthly[name]) = 12
          /\ Len(countries[name]) <= 8
    /\ Len(daily_stars) = 31
    /\ Len(daily_forks) = 31

\* C12: the engine never divides by zero: whatever the combination of
\* stargazers_count = 0, forks_count = 0, zero elapsed months, a repository age of 0
\* days and contribution counts that sum to 0, no step of the synthesis raises and
\* the call returns a complete bundle (history, legacy monthly, countries, daily).
C12_NoDivisionByZero ==
    /\ pc # "raised"
    /\ pc = "returned" => CompleteBundle

\* A bundle returned for a repository without stars and forks, created earlier on
\* the current day, with contributors whose contributions sum to 0.
C12_Witness ==
    /\ pc = "returned"
    /\ repo_data.stargazers_count = 0
    /\ repo_data.forks_count = 0
    /\ MonthsBetween(current_date, repo_data.created_at) = 0
    /\ DaysBetween(current_date, repo_data.created_at) = 0
    /\ contributors # <<>>
    /\ SumOver(contributors, "contributions") = 0
    /\ CompleteBundle

\* ------------------------------------------------------------ claims: events and history
\* Star-event lists to compare a run with: none, and one, two or three events in
\* the month n months after the creation month, for every month of the history.
OtherStarLists ==
    {[k \in 1..times |-> StarEvent("iso", MonthsOn(repo_data.created_at, n, 1, 0))] :
        times \in 0..3, n \in 0..MaxSpan}

\* The variations the iteration of the monthly loop about to run draws from.
DrawnVariations ==
    Variations(Max(0, TargetCumulative(repo_data.stargazers_count,
                          MonthsBetween(current_month, repo_data.created_at),
                          TotalMonths(repo_data.created_at, current_date))
                      - cumulative_stars)) \cup {0}

\* The record the iteration about to run appends for the star events `events` and
\* the drawn variation.
RecordFor(events, variation) ==
    LET stars_this_month ==
            StarsThisMonth(repo_data, events, current_month, current_date,
                           cumulative_stars, variation)
        forks_this_month == ForksThisMonth(repo_data, stars_this_month)
    IN MonthlyRecord(current_month, stars_this_month, forks_this_month,
                     cumulative_stars + stars_this_month,
                     cumulative_forks + forks_this_month)

\* C15: the monthly history does not depend on the star events: a run with the same
\* repository snapshot, the same current timestamp and the same random draws but
\* other star events appends, month after month, the same record (stars_gained,
\* forks_gained and the cumulative fields), and so reaches the same cumulative
\* totals; the reconciliation reads the history and the snapshot only.
C15_HistoryIgnoresEvents ==
    [][(pc = "monthly_loop" /\ Len(monthly_history') = Len(monthly_history) + 1)
          => \E variation \in DrawnVariations :
                \A other \in OtherStarLists :
                   monthly_history'[Len(monthly_history')] = RecordFor(other, variation)]_vars

\* A returned history of several months for a list with one event in the creation
\* month: the record of that month gains no star, a later one does.
C15_Witness ==
    /\ pc = "reconciled"
    /\ stargazers = <<StarEvent("iso", repo_data.created_at)>>
    /\ Len(monthly_history) >= 2
    /\ CountInMonth(stargazers, monthly_history[1].date) = 1
    /\ monthly_history[1].stars_gained = 0
    /\ \E i \in 2..Len(monthly_history) : monthly_history[i].stars_gained > 0

\* ------------------------------------------------------------ get_stargazers_timeline
\* line 197 and the two limits of line 199
per_page == 100
MaxStargazers == 2000
MaxPages == 20

\* The number of pages of a run that may hold another number of events than per_page.
MaxOddPages == 2

\* The events a page may hold besides none and per_page: fewer, or more when the
\* server does not keep to per_page.
OddSizes == {37, 150}

\* `fetched` holds one record per page taken into `stargazers`: the page number and
\* the number of its events; the events of a page keep their order.
FetchedEvents(pages) == SumOver(pages, "events")

\* the loop condition without the limit on the pages
FetchMoreWithoutPageLimit(pages, next_page) == FetchedEvents(pages) < MaxStargazers

\* line 199: len(stargazers) < 2000 and page <= 20
FetchMore(pages, next_page) ==
    FetchedEvents(pages) < MaxStargazers /\ next_page <= MaxPages

\* The outcomes of a request for a page: a status and, for status 200, the number
\* of events of the page, or a request or a decoding that raises (no status: 0).
Responses(pages) ==
    LET odd == Cardinality({k \in DOMAIN pages : pages[k].events # per_page})
    IN {[raised |-> FALSE, status |-> 404, events |-> 0],
        [raised |-> TRUE, status |-> 0, events |-> 0],
        [raised |-> FALSE, status |-> 200, events |-> 0],
        [raised |-> FALSE, status |-> 200, events |-> per_page]}
           \cup (IF odd < MaxOddPages
                 THEN {[raised |-> FALSE, status |-> 200, events |-> n] : n \in OddSizes}
                 ELSE {})

\* One iteration of the loop of lines 199-214, with the return it may lead to
\* (line 216 after a break, line 218 after an exception).
FetchPage ==
    /\ pc = "fetch_loop"
    /\ FetchMore(fetched, page)
    /\ \E response \in Responses(fetched) :
          /\ requests' = Append(requests, [page |-> page, raised |-> response.raised,
                                           status |-> response.status,
                                           events |-> response.events])
          /\ IF response.raised
             THEN /\ fetched' = <<>>
                  /\ pc' = "fetch_returned"
                  /\ page' = page
             ELSE IF response.status # 200 \/ response.events = 0
             THEN /\ pc' = "fetch_returned"
                  /\ UNCHANGED <<fetched, page>>
             ELSE /\ fetched' = Append(fetched, [page |-> page, events |-> response.events])
                  /\ page' = page + 1
                  /\ pc' = pc
    /\ UNCHANGED <<repo_data, current_date, stargazers, contributors, current_month,
                   cumulative_stars, cumulative_forks, monthly_history, adjusted,
                   countries, daily_i, daily_stars, daily_forks, classification, growth,
                   legacy_monthly, channelVars>>

\* The loop condition of line 199 fails: line 216 returns the list.
FetchReturn ==
    /\ pc = "fetch_loop"
    /\ ~FetchMore(fetched, page)
    /\ pc' = "fetch_returned"
    /\ UNCHANGED <<repo_data, current_date, stargazers, contributors, current_month,
                   cumulative_stars, cumulative_forks, monthly_history, adjusted,
                   countries, daily_i, daily_stars, daily_forks, classification, growth,
                   legacy_monthly, fetchVars, channelVars>>

\* get_stargazers_timeline is entered: lines 193-197; `requests` is the log of the
\* requests issued, each with its response.
InitTimeline ==
    /\ pc = "fetch_loop"
    /\ page = 1
    /\ requests = <<>>
    /\ fetched = <<>>
    /\ repo_data = Repo(0, 0, Timestamp(BaseYear, 1, 1, 0))
    /\ current_date = Timestamp(BaseYear, 1, 1, 0)
    /\ current_month = Timestamp(BaseYear, 1, 1, 0)
    /\ stargazers = <<>>
    /\ contributors = <<>>
    /\ cumulative_stars = 0
    /\ cumulative_forks = 0
    /\ monthly_history = <<>>
    /\ adjusted = NotAdjusted
    /\ countries = NoCountries
    /\ daily_i = 0
    /\ daily_stars = <<>>
    /\ daily_forks = <<>>
    /\ classification = <<>>
    /\ growth = NoGrowth
    /\ legacy_monthly = NoLegacy /\ NoChannel

NextTimeline == FetchPage \/ FetchReturn

\* Every request is answered or fails within the client's timeout, so the loop is
\* never left waiting: weak fairness of its steps.
SpecTimeline == InitTimeline /\ [][NextTimeline]_vars /\ WF_vars(NextTimeline)

\* ------------------------------------------------------------ claims: page fetch
\* The last request of the log was answered by a non-200 status or an empty page.
StoppedByResponse ==
    /\ requests # <<>>
    /\ LET last == requests[Len(requests)]
       IN ~last.raised /\ (last.status # 200 \/ last.events = 0)

\* The list holds exactly the pages answered before the k-th request, in page order.
HoldsPagesBefore(k) ==
    /\ Len(fetched) = k - 1
    /\ \A j \in 1..(k - 1) :
          /\ requests[j].page = j
          /\ fetched[j] = [page |-> j, events |-> requests[j].events]

\* C14: get_stargazers_timeline always terminates, after at most 20 page requests;
\* when every page holds at most 100 events it returns at most 2000 events; and at
\* the first non-200 response or empty page it stops and returns exactly the events
\* of the pages fetched before it, in page order.
C14_BoundedFetch ==
    /\ [](/\ Len(requests) <= MaxPages
          /\ pc = "fetch_returned" =>
                /\ (\A k \in DOMAIN requests : requests[k].events <= per_page)
                       => FetchedEvents(fetched) <= MaxStargazers
                /\ StoppedByResponse => HoldsPagesBefore(Len(requests))
          /\ \A k \in 1..(Len(requests) - 1) :
                requests[k].status = 200 /\ requests[k].events > 0)
    /\ <>(pc = "fetch_returned")

\* A return after twenty requests of full pages, 2000 events in all.
C14_Witness ==
    /\ pc = "fetch_returned"
    /\ Len(requests) = MaxPages
    /\ FetchedEvents(fetched) = MaxStargazers

\* A return at an empty page that follows three pages, a short one among them.
C14_StopWitness ==
    /\ pc = "fetch_returned"
    /\ Len(requests) = 4
    /\ requests[4] = [page |-> 4, raised |-> FALSE, status |-> 200, events |-> 0]
    /\ HoldsPagesBefore(4)
    /\ \E k \in 1..3 : fetched[k].events < per_page

\* ------------------------------------------------------------ push channel
\* The clients whose sockets call websocket_endpoint; each stands for its WebSocket.
Clients == {"a", "b", "c"}

\* A handler is the call of websocket_endpoint for one client.  Its positions:
\*   "connecting"  awaiting websocket.accept() in manager.connect (lines 31-33, 638)
\*   "fetching"    awaiting get_github_data (line 645)
\*   "sending"     awaiting send_text of the data frame (line 647)
\*   "reporting"   awaiting send_text of the error frame (lines 659, 669)
\*   "sleeping"    awaiting asyncio.sleep(30) (lines 649, 660, 670)
\*   "closing"     awaiting websocket.close (line 678)
\*   "returned"    the call has returned (after line 673 or line 680)
\*   "failed"      the call was left by an exception
\* The steps of one call run between its awaits; the calls interleave at the awaits.
InLoop == {"fetching", "sending", "reporting", "sleeping"}
Running == {"connecting", "closing"} \cup InLoop

\* list.remove(x): the list without the first item equal to x
RECURSIVE Remove(_, _)
Remove(list, x) ==
    IF list = <<>> THEN <<>>
    ELSE IF list[1] = x THEN Tail(list)
    ELSE <<list[1]>> \o Remove(Tail(list), x)

Registered == {active_connections[k] : k \in DOMAIN active_connections}

\* manager.active_connections after a disconnect that removes the item last added
\* instead of the given one
DisconnectLast(list, websocket) == SubSeq(list, 1, Len(list) - 1)

\* lines 35-36: manager.active_connections after manager.disconnect(websocket)
Disconnect(list, websocket) == Remove(list, websocket)

engineVars ==
    <<repo_data, current_date, stargazers, contributors, pc, current_month,
      cumulative_stars, cumulative_forks, monthly_history, adjusted, countries,
      daily_i, daily_stars, daily_forks, classification, growth, legacy_monthly>>

\* lines 31-33 and 638: accept returns and the connection is registered, or accept
\* raises for a client that has gone and the call is left before its try.
Connect(c) ==
    /\ handler[c] = "connecting"
    /\ IF client_open[c]
       THEN /\ active_connections' = Append(active_connections, c)
            /\ handler' = [handler EXCEPT ![c] = "fetching"]
       ELSE /\ handler' = [handler EXCEPT ![c] = "failed"]
            /\ UNCHANGED active_connections
    /\ UNCHANGED <<client_open, removals, send_failed, broadcast, engineVars, fetchVars>>

\* line 645: get_github_data returns the data, or raises HTTPException (line 650)
\* or another exception (line 661); both handlers build an error frame.
Fetch(c) ==
    /\ handler[c] = "fetching"
    /\ \E fetched_data \in BOOLEAN :
          handler' = [handler EXCEPT ![c] = IF fetched_data THEN "sending" ELSE "reporting"]
    /\ UNCHANGED <<active_connections, client_open, removals, send_failed, broadcast,
                   engineVars, fetchVars>>

\* line 647: the data frame is sent, or send_text raises for a client that has gone;
\* the exception is no HTTPException and line 661 catches it.
Send(c) ==
    /\ handler[c] = "sending"
    /\ IF client_open[c]
       THEN /\ handler' = [handler EXCEPT ![c] = "sleeping"]
            /\ UNCHANGED send_failed
       ELSE /\ handler' = [handler EXCEPT ![c] = "reporting"]
            /\ send_failed' = send_failed \cup {c}
    /\ UNCHANGED <<active_connections, client_open, removals, broadcast, engineVars,
                   fetchVars>>

\* lines 659 and 669: the error frame is sent, or send_text raises inside the except
\* clause and the exception reaches the outer handlers: WebSocketDisconnect
\* (lines 672-674) disconnects and returns, any other (lines 675-680) disconnects and
\* goes on to close the socket.  manager.disconnect raises ValueError for a
\* connection that is not in the list, and the call is left by it.
Report(c) ==
    /\ handler[c] = "reporting"
    /\ IF client_open[c]
       THEN /\ handler' = [handler EXCEPT ![c] = "sleeping"]
            /\ UNCHANGED <<active_connections, removals, send_failed>>
       ELSE /\ send_failed' = send_failed \cup {c}
            /\ IF c \in Registered
               THEN /\ active_connections' = Disconnect(active_connections, c)
                    /\ removals' = [removals EXCEPT ![c] = @ + 1]
                    /\ \E disconnected \in BOOLEAN :
                          handler' = [handler EXCEPT
                                         ![c] = IF disconnected THEN "returned"
                                                ELSE "closing"]
               ELSE /\ handler' = [handler EXCEPT ![c] = "failed"]
                    /\ UNCHANGED <<active_connections, removals>>
    /\ UNCHANGED <<client_open, broadcast, engineVars, fetchVars>>

\* lines 649, 660 and 670: the 30 seconds are over and the loop starts again
Sleep(c) ==
    /\ handler[c] = "sleeping"
    /\ handler' = [handler EXCEPT ![c] = "fetching"]
    /\ UNCHANGED <<active_connections, client_open, removals, send_failed, broadcast,
                   engineVars, fetchVars>>

\* lines 677-680: close returns or raises, and the call returns
Close(c) ==
    /\ handler[c] = "closing"
    /\ handler' = [handler EXCEPT ![c] = "returned"]
    /\ UNCHANGED <<active_connections, client_open, removals, send_failed, broadcast,
                   engineVars, fetchVars>>

\* The client goes away: from now on accept and send_text raise for its socket.
ClientCloses(c) ==
    /\ client_open[c]
    /\ client_open' = [client_open EXCEPT ![c] = FALSE]
    /\ UNCHANGED <<active_connections, handler, removals, send_failed, broadcast,
                   engineVars, fetchVars>>

\* line 38: manager.broadcast is called; the for statement of line 39 iterates over
\* the list itself, by position.
BroadcastStart ==
    /\ broadcast.at = "idle"
    /\ broadcast' = [at |-> "running", next |-> 0, attempted |-> <<>>,
                     at_start |-> Registered]
    /\ UNCHANGED <<active_connections, handler, client_open, removals, send_failed,
                   engineVars, fetchVars>>

\* lines 39-43: the iterator yields the item at its position, if the list still has
\* one there, and send_text is awaited for it (an exception of it is passed over);
\* otherwise the loop ends and broadcast returns.
BroadcastStep ==
    /\ broadcast.at = "running"
    /\ IF broadcast.next < Len(active_connections)
       THEN broadcast' = [broadcast EXCEPT
                             !.next = @ + 1,
                             !.attempted =
                                 Append(@, active_connections[broadcast.next + 1])]
       ELSE broadcast' = [broadcast EXCEPT !.at = "returned"]
    /\ UNCHANGED <<active_connections, handler, client_open, removals, send_failed,
                   engineVars, fetchVars>>

HandlerStep(c) ==
    Connect(c) \/ Fetch(c) \/ Send(c) \/ Report(c) \/ Sleep(c) \/ Close(c)

\* The sockets have called websocket_endpoint (line 637); nothing is registered.
InitChannel ==
    /\ active_connections = <<>>
    /\ handler = [c \in Clients |-> "connecting"]
    /\ client_open = [c \in Clients |-> TRUE]
    /\ removals = [c \in Clients |-> 0]
    /\ send_failed = {}
    /\ broadcast = [at |-> "idle"]
    /\ pc = "serving"
    /\ repo_data = Repo(0, 0, Timestamp(BaseYear, 1, 1, 0))
    /\ current_date = Timestamp(BaseYear, 1, 1, 0)
    /\ current_month = Timestamp(BaseYear, 1, 1, 0)
    /\ stargazers = <<>>
    /\ contributors = <<>>
    /\ cumulative_stars = 0
    /\ cumulative_forks = 0
    /\ monthly_history = <<>>
    /\ adjusted = NotAdjusted
    /\ countries = NoCountries
    /\ daily_i = 0
    /\ daily_stars = <<>>
    /\ daily_forks = <<>>
    /\ classification = <<>>
    /\ growth = NoGrowth
    /\ legacy_monthly = NoLegacy /\ NoFetch

NextChannel ==
    \/ \E c \in Clients : Connect(c)
    \/ \E c \in Clients : Fetch(c)
    \/ \E c \in Clients : Send(c)
    \/ \E c \in Clients : Report(c)
    \/ \E c \in Clients : Sleep(c)
    \/ \E c \in Clients : Close(c)
    \/ \E c \in Clients : ClientCloses(c)
    \/ BroadcastStart
    \/ BroadcastStep

\* The handlers, the clients and a call of manager.broadcast.
SpecChannel == InitChannel /\ [][NextChannel]_vars

\* The handlers and the clients alone.
NextHandlers ==
    \/ \E c \in Clients : Connect(c)
    \/ \E c \in Clients : Fetch(c)
    \/ \E c \in Clients : Send(c)
    \/ \E c \in Clients : Report(c)
    \/ \E c \in Clients : Sleep(c)
    \/ \E c \in Clients : Close(c)
    \/ \E c \in Clients : ClientCloses(c)

\* Every await of a handler comes back (accept and send within the socket's life,
\* the fetch within the client's timeout, the sleep after 30 seconds): weak fairness
\* of each handler's steps.
SpecHandlers ==
    /\ InitChannel
    /\ [][NextHandlers]_vars
    /\ \A c \in Clients : WF_vars(HandlerStep(c))

\* ------------------------------------------------------------ claims: push channel
\* The connections a returned broadcast has awaited send_text for.
Attempted == {broadcast.attempted[k] : k \in DOMAIN broadcast.attempted}

\* A connection is registered once only (a handler registers its socket once), so
\* one that was registered when broadcast began and still is has been so throughout.
RegisteredThroughoutBroadcast == broadcast.at_start \cap Registered

\* C13: with several clients connected, a failed send to one client never drops
\* another: a returned broadcast has attempted the send to every registered
\* connection (and nothing was raised), and in websocket_endpoint a failed send
\* removes only the connection of the client it failed for: every client that has
\* connected and has not gone away is still registered and in its push loop,
\* whatever the other handlers did in between.
C13_FailedSendDropsNoOther ==
    /\ broadcast.at = "returned" => RegisteredThroughoutBroadcast \subseteq Attempted
    /\ \A c \in Clients :
          (client_open[c] /\ handler[c] # "connecting")
              => (c \in Registered /\ handler[c] \in InLoop)

\* The part of C13 about websocket_endpoint alone.
C13_HandlersKeepOthers ==
    \A c \in Clients :
       (client_open[c] /\ handler[c] # "connecting")
           => (c \in Registered /\ handler[c] \in InLoop)

\* C16 as stated: a connection is in manager.active_connections exactly while its
\* handler is running (a failed fetch leaves it registered, a failed send leads to
\* its removal, once), so that no connection whose handler has returned stays
\* registered.
C16_RegisteredWhileRunning ==
    \A c \in Clients :
       /\ (c \in Registered) = (handler[c] \in Running)
       /\ handler[c] = "returned" => removals[c] = 1

\* The number of times the connection is in the list.
Occurrences(c) ==
    Cardinality({k \in DOMAIN active_connections : active_connections[k] = c})

\* C16 (amended): a connection is in manager.active_connections exactly while its
\* handler is in its push loop, from the return of manager.connect to the call of
\* manager.disconnect (the handler also runs, unregistered, while it awaits accept
\* and while it awaits the final close).  A failed repository fetch keeps the
\* connection registered, sends an error frame and retries after the wait unless
\* that send fails; once a send to the client has failed the handler eventually
\* leaves its loop and returns, having removed the connection exactly once; no
\* connection whose handler has returned or was left by an exception is registered.
C16_RegisteredWhileInLoop ==
    /\ [](\A c \in Clients :
             /\ (c \in Registered) = (handler[c] \in InLoop)
             /\ Occurrences(c) <= 1
             /\ removals[c] = IF handler[c] \in {"closing", "returned"} THEN 1 ELSE 0)
    /\ \A c \in Clients :
          /\ (c \in send_failed) ~> (handler[c] = "returned" /\ c \notin Registered)
          /\ (handler[c] = "reporting") ~> (handler[c] = "fetching" \/ c \in send_failed)

\* A handler has returned after failed sends and its connection was removed once,
\* while another client is still registered and a third is being told of a failed
\* fetch.
C16_Witness ==
    \E c, d, e \in Clients :
       /\ c # d /\ d # e /\ c # e
       /\ handler[c] = "returned" /\ c \in send_failed /\ removals[c] = 1
       /\ c \notin Registered
       /\ d \in Registered /\ handler[d] = "sleeping"
       /\ e \in Registered /\ handler[e] = "reporting" /\ client_open[e]

====
